---- MODULE Spec2Model ----
(***************************************************************************)
(* Generic tagging (src/models.py): the Tag and TaggedItem tables, the     *)
(* reconciliation TagManager.update_tags as the sequence of storage        *)
(* statements it issues, the query methods as operators over the tables,   *)
(* and the logarithmic tag cloud TagManager.cloud_for_model.               *)
(***************************************************************************)
EXTENDS Integers, Sequences, FiniteSets, TLC

\* ------------------------------------------------------------------ bounds
MaxCalls == 2         \* update_tags calls the concurrent callers start in one behaviour
MaxSerialCalls == 3   \* update_tags calls the single caller starts in one behaviour
MaxTags == 3          \* rows usage_for_model returns to one cloud_for_model call

\* ------------------------------------------------------------------ inputs
\* the characters str.split() splits on
Whitespace == {" ", "\t"}

\* tag_list = None
None == <<"None">>

\* the tag_list arguments the callers pass, as sequences of characters:
\* absent, empty, whitespace only, a repeated name, two names, two names of
\* which one is shared with the former
TagLists ==
    { None,
      <<>>,
      <<" ">>,
      <<"a", " ", "a">>,
      <<"a", " ", "b">>,
      <<"b", " ", "c">> }

\* the concurrent callers of update_tags
Procs == {"p1", "p2"}

\* the tagged records as (content type, primary key): two records of one
\* type, and a record of another type with the primary key of the first
Objects == {<<"T1", 1>>, <<"T1", 2>>, <<"T2", 1>>}

\* the steps arguments of cloud_for_model: zero, one, the default of line 68
\* and seven
StepsValues == {0, 1, 4, 7}

\* the usage counts of the rows usage_for_model returns
CountValues == {1, 10, 100, 116}

\* the count columns of list(usage_for_model(Model, counts=True)), row by
\* row; the further rows of a tag the join returns more than once are left
\* out: they have the count of the first and go through the same comparisons
Usages == UNION {[1..n -> CountValues] : n \in 0..MaxTags}

VARIABLES
    tag,                \* table tag: rows [id, name]
    tagged_item,        \* table tagged_item: rows [id, tag, content_type, object_id]
    next_tag_id,        \* auto-increment primary key of tag
    next_item_id,       \* auto-increment primary key of tagged_item
    pc,                 \* position of each caller inside update_tags
    obj,                \* update_tags argument obj
    tag_list,           \* update_tags argument tag_list
    current_tags,       \* local current_tags
    updated_tag_names,  \* local updated_tag_names
    todo,               \* names the loop of line 32 has not visited yet
    tag_name,           \* loop variable tag_name
    tag_row,            \* local tag, the row get_or_create returned
    calls,              \* number of update_tags calls started
    pre,                \* history: the tables when the call was entered
    alone,              \* history: no other caller has written since the call was entered
    again,              \* history: the call repeats the call completed just before it
    cloud_pc,           \* position inside cloud_for_model
    steps,              \* cloud_for_model argument steps
    tags,               \* local tags: rows with count and, once set, font_size
    new_thresholds,     \* local new_thresholds: (argument of math.log, i)
    same_log,           \* (count, i) for which this build's math.log evens out a small excess
    visited             \* tags the loop of line 87 has been through

vars == <<tag, tagged_item, next_tag_id, next_item_id, pc, obj, tag_list,
          current_tags, updated_tag_names, todo, tag_name, tag_row, calls,
          pre, alone, again, cloud_pc, steps, tags, new_thresholds, same_log,
          visited>>

cloud == <<cloud_pc, steps, tags, new_thresholds, same_log, visited>>
tagging == <<tag, tagged_item, next_tag_id, next_item_id, pc, obj, tag_list,
             current_tags, updated_tag_names, todo, tag_name, tag_row, calls,
             pre, alone, again>>

store == <<tag, tagged_item, next_tag_id, next_item_id>>
frame == <<obj, tag_list, current_tags, updated_tag_names, again>>

\* ------------------------------------------------------------ str.split()
RECURSIVE SplitFrom(_, _, _)
\* scan s from position i with the word w collected so far
SplitFrom(s, i, w) ==
    IF i > Len(s)
    THEN IF w = "" THEN <<>> ELSE <<w>>
    ELSE IF s[i] \in Whitespace
         THEN IF w = "" THEN SplitFrom(s, i + 1, "")
                        ELSE <<w>> \o SplitFrom(s, i + 1, "")
         ELSE SplitFrom(s, i + 1, w \o s[i])

RECURSIVE SplitOnSpace(_, _, _)
\* str.split(" "): every single blank separates, empty words are kept
SplitOnSpace(s, i, w) ==
    IF i > Len(s) THEN <<w>>
    ELSE IF s[i] = " " THEN <<w>> \o SplitOnSpace(s, i + 1, "")
         ELSE SplitOnSpace(s, i + 1, w \o s[i])

split_blank(s) == SplitOnSpace(s, 1, "")

\* tag_list.split() (line 20)
split(s) == SplitFrom(s, 1, "")

\* set(...) of a list (line 20)
set(q) == {q[i] : i \in DOMAIN q}

\* updated_tag_names as lines 18-20 compute it
UpdatedTagNames(tl) == IF tl # None THEN set(split(tl)) ELSE {}

\* ---------------------------------------------------------------- queries
\* ContentType.objects.get_for_model(obj).id
ctype(o) == o[1]

\* obj.id
oid(o) == o[2]

\* the tagged_item rows of one record
ItemsOf(items, o) ==
    {it \in items : it.content_type = ctype(o) /\ it.object_id = oid(o)}

\* Tag.objects.filter(items__content_type__pk=ctype.id, items__object_id=obj.id)
get_for_object(o) ==
    {t \in tag : \E it \in ItemsOf(tagged_item, o) : it.tag = t.id}

NamesOf(ts) == {t.name : t \in ts}

\* the content types of the tagged records
Types == {ctype(o) : o \in Objects}

UsageCount_AnyType(t, ct) == Cardinality({it \in tagged_item : it.tag = t.id})

\* the count subselect of lines 60-62: SELECT COUNT(*) FROM tagged_item WHERE
\* tagged_item.tag_id = tag.id AND tagged_item.content_type_id = %s
UsageCount(t, ct) ==
    Cardinality({it \in tagged_item : it.tag = t.id /\ it.content_type = ct})

\* usage_for_model (lines 46-66): self.filter(items__content_type__pk=ctype.id)
\* joins tag with tagged_item and selects without DISTINCT, so the result has
\* one Tag row for every tagged_item row of the type; item is the joined row
usage_for_model(ct) ==
    {[id |-> x[1].id, name |-> x[1].name, count |-> UsageCount(x[1], ct), item |-> x[2].id] :
        x \in {y \in tag \X tagged_item : y[2].tag = y[1].id /\ y[2].content_type = ct}}

get_by_model_AnyType(ct, t) ==
    {[object |-> x[1], item |-> x[2].id] :
        x \in {y \in Objects \X tagged_item :
                /\ ctype(y[1]) = ct
                /\ y[2].tag = t.id
                /\ oid(y[1]) = y[2].object_id}}

\* get_by_model (lines 112-130): Model.objects.extra(tables=['tagged_item'],
\* where=[content_type_id = ctype.id, tag_id = tag.id, pk = object_id]), the
\* records of Model joined with the tagged_item rows of the type and the tag;
\* item is the joined row
get_by_model(ct, t) ==
    {[object |-> x[1], item |-> x[2].id] :
        x \in {y \in Objects \X tagged_item :
                /\ ctype(y[1]) = ct
                /\ y[2].content_type = ct
                /\ y[2].tag = t.id
                /\ oid(y[1]) = y[2].object_id}}

\* ------------------------------------------------------------------- Init
NoFrame == [tag |-> {}, tagged_item |-> {}]
NoTag == [id |-> 0, name |-> ""]
NoObj == <<"T1", 1>>

Init ==
    /\ tag = {}
    /\ tagged_item = {}
    /\ next_tag_id = 1
    /\ next_item_id = 1
    /\ pc = [p \in Procs |-> "idle"]
    /\ obj = [p \in Procs |-> NoObj]
    /\ tag_list = [p \in Procs |-> None]
    /\ current_tags = [p \in Procs |-> {}]
    /\ updated_tag_names = [p \in Procs |-> {}]
    /\ todo = [p \in Procs |-> {}]
    /\ tag_name = [p \in Procs |-> ""]
    /\ tag_row = [p \in Procs |-> NoTag]
    /\ calls = 0
    /\ pre = [p \in Procs |-> NoFrame]
    /\ alone = [p \in Procs |-> TRUE]
    /\ again = [p \in Procs |-> FALSE]
    /\ cloud_pc = "idle"
    /\ steps = 0
    /\ tags = <<>>
    /\ new_thresholds = <<>>
    /\ same_log = {}
    /\ visited = 0

\* ------------------------------------------------------------ update_tags
Running(p) == pc[p] \in {"remove", "add", "create_tag", "create_item"}

\* the ways a call ends: it returns, or a statement raises
Errors == {"IntegrityError_tag", "IntegrityError_item", "StorageError"}
Ended(p) == pc[p] \in {"done"} \cup Errors

TagsForRemoval_Kept(cur, names) == {t \in cur : t.name \in names}

TagsForRemoval_All(cur, names) == cur

\* tags_for_removal (lines 23-24)
TagsForRemoval(cur, names) == {t \in cur : t.name \notin names}

tags_for_removal(p) == TagsForRemoval(current_tags[p], updated_tag_names[p])

ToAdd_All(cur, names) == names

\* the names the loop body of lines 34-35 runs for (lines 31-33)
ToAdd(cur, names) == {n \in names : n \notin NamesOf(cur)}

\* a statement of caller p wrote to the store: the calls of the others are
\* no longer alone, and what the tables were at their entry is dropped
Wrote(p) ==
    /\ alone' = [q \in Procs |-> IF q = p THEN alone[q] ELSE FALSE]
    /\ pre' = [q \in Procs |-> IF q = p THEN pre[q] ELSE NoFrame]

\* where the caller goes after a statement, given the names left to visit
AfterStmt(p, names) == IF ToAdd(current_tags[p], names) = {} THEN "done" ELSE "add"

\* the loop locals after a statement: they are gone once the call has ended
LoopLocals(p, newpc, td, tn, tr) ==
    LET ended == newpc \in {"done"} \cup Errors
    IN /\ pc' = [pc EXCEPT ![p] = newpc]
       /\ todo' = [todo EXCEPT ![p] = IF ended THEN {} ELSE td]
       /\ tag_name' = [tag_name EXCEPT ![p] = IF ended THEN "" ELSE tn]
       /\ tag_row' = [tag_row EXCEPT ![p] = IF ended THEN NoTag ELSE tr]

\* the frame of caller q when caller p enters update_tags: p gets a new one,
\* the frame of a call that has ended is dropped, a running call keeps its own
Enter(p, q, old, new, none) == IF q = p THEN new ELSE IF Ended(q) THEN none ELSE old

\* the call (o, tl) repeats a call that has returned and after which nothing
\* was written
Repeats(o, tl) ==
    \E q \in Procs : pc[q] = "done" /\ alone[q] /\ obj[q] = o /\ tag_list[q] = tl

\* lines 10-24: entry, the query for current_tags, parsing of tag_list
Call(p, o, tl) ==
    LET names == UpdatedTagNames(tl)
        cur == get_for_object(o)
        newpc == IF TagsForRemoval(cur, names) # {} THEN "remove"
                 ELSE IF ToAdd(cur, names) # {} THEN "add" ELSE "done"
    IN /\ pc[p] \in {"idle", "done"} \cup Errors
       /\ calls' = calls + 1
       /\ obj' = [q \in Procs |-> Enter(p, q, obj[q], o, NoObj)]
       /\ tag_list' = [q \in Procs |-> Enter(p, q, tag_list[q], tl, None)]
       /\ current_tags' = [q \in Procs |-> Enter(p, q, current_tags[q], cur, {})]
       /\ updated_tag_names' = [q \in Procs |-> Enter(p, q, updated_tag_names[q], names, {})]
       /\ pre' = [q \in Procs |->
                    Enter(p, q, pre[q], [tag |-> tag, tagged_item |-> tagged_item], NoFrame)]
       /\ alone' = [q \in Procs |-> Enter(p, q, alone[q], TRUE, TRUE)]
       /\ again' = [q \in Procs |-> Enter(p, q, again[q], Repeats(o, tl), FALSE)]
       /\ pc' = [q \in Procs |-> Enter(p, q, pc[q], newpc, "idle")]
       /\ todo' = [todo EXCEPT ![p] = IF newpc = "done" THEN {} ELSE names]
       /\ UNCHANGED <<store, tag_name, tag_row, cloud>>

RemovalRows_AnyType(items, o, removal) ==
    {it \in items : it.object_id = oid(o) /\ it.tag \in {t.id : t \in removal}}

\* the rows the batch delete of lines 26-28 matches
RemovalRows(items, o, removal) ==
    {it \in ItemsOf(items, o) : it.tag \in {t.id : t \in removal}}

Remove_Prune(p) ==
    /\ pc[p] = "remove"
    /\ tagged_item' = tagged_item \ RemovalRows(tagged_item, obj[p], tags_for_removal(p))
    /\ tag' = {t \in tag : \E it \in tagged_item' : it.tag = t.id}
    /\ LoopLocals(p, AfterStmt(p, todo[p]), todo[p], tag_name[p], tag_row[p])
    /\ Wrote(p)
    /\ UNCHANGED <<next_tag_id, next_item_id, frame, calls, cloud>>

\* lines 25-28: TaggedItem.objects.filter(...).delete()
Remove(p) ==
    /\ pc[p] = "remove"
    /\ tagged_item' = tagged_item \ RemovalRows(tagged_item, obj[p], tags_for_removal(p))
    /\ LoopLocals(p, AfterStmt(p, todo[p]), todo[p], tag_name[p], tag_row[p])
    /\ Wrote(p)
    /\ UNCHANGED <<tag, next_tag_id, next_item_id, frame, calls, cloud>>

TagNameTaken_Unchecked(n) == FALSE

\* Tag.name is unique=True (line 96)
TagNameTaken(n) == \E t \in tag : t.name = n

\* lines 32-34: the next loop iteration and the lookup half of get_or_create
GetOrCreate_get(p) ==
    /\ pc[p] = "add"
    /\ \E n \in ToAdd(current_tags[p], todo[p]) :
        IF TagNameTaken(n)
        THEN LoopLocals(p, "create_item", todo[p] \ {n}, n, CHOOSE t \in tag : t.name = n)
        ELSE LoopLocals(p, "create_tag", todo[p] \ {n}, n, tag_row[p])
    /\ UNCHANGED <<store, frame, calls, pre, alone, cloud>>

\* line 34: the insert half of get_or_create, taken when the lookup missed
GetOrCreate_create(p) ==
    /\ pc[p] = "create_tag"
    /\ IF TagNameTaken(tag_name[p])
       THEN \* the insert violates the unique name: IntegrityError leaves update_tags
            /\ LoopLocals(p, "IntegrityError_tag", {}, "", NoTag)
            /\ UNCHANGED <<store, alone, pre>>
       ELSE LET t == [id |-> next_tag_id, name |-> tag_name[p]]
            IN /\ tag' = tag \cup {t}
               /\ next_tag_id' = next_tag_id + 1
               /\ LoopLocals(p, "create_item", todo[p], tag_name[p], t)
               /\ Wrote(p)
               /\ UNCHANGED <<tagged_item, next_item_id>>
    /\ UNCHANGED <<frame, calls, cloud>>

TripleTaken_Unchecked(t, ct, id) == FALSE

\* unique_together = (('tag', 'content_type', 'object_id'),) (line 145)
TripleTaken(t, ct, id) ==
    \E it \in tagged_item : it.tag = t /\ it.content_type = ct /\ it.object_id = id

\* line 35: TaggedItem.objects.create(tag=tag, object=obj)
CreateItem(p) ==
    /\ pc[p] = "create_item"
    /\ IF TripleTaken(tag_row[p].id, ctype(obj[p]), oid(obj[p]))
       THEN \* the insert violates unique_together: IntegrityError leaves update_tags
            /\ LoopLocals(p, "IntegrityError_item", {}, "", NoTag)
            /\ UNCHANGED <<store, alone, pre>>
       ELSE /\ tagged_item' = tagged_item \cup
                    {[id |-> next_item_id, tag |-> tag_row[p].id,
                      content_type |-> ctype(obj[p]), object_id |-> oid(obj[p])]}
            /\ next_item_id' = next_item_id + 1
            /\ LoopLocals(p, AfterStmt(p, todo[p]), todo[p], tag_name[p], tag_row[p])
            /\ Wrote(p)
            /\ UNCHANGED <<tag, next_tag_id>>
    /\ UNCHANGED <<frame, calls, cloud>>

\* a storage statement of lines 26-35 raises (connection lost, timeout):
\* nothing catches it, the call ends, what was written stays written
StorageError(p) ==
    /\ Running(p)
    /\ LoopLocals(p, "StorageError", {}, "", NoTag)
    /\ UNCHANGED <<store, frame, calls, pre, alone, cloud>>

Next ==
    \/ \E p \in Procs, o \in Objects, tl \in TagLists : calls < MaxCalls /\ Call(p, o, tl)
    \/ \E p \in Procs : Remove(p)
    \/ \E p \in Procs : GetOrCreate_get(p)
    \/ \E p \in Procs : GetOrCreate_create(p)
    \/ \E p \in Procs : CreateItem(p)

Spec == Init /\ [][Next]_vars

\* one caller over a storage layer whose statements can fail
Caller == "p1"

NextFault ==
    \/ \E o \in Objects, tl \in TagLists : calls < MaxSerialCalls /\ Call(Caller, o, tl)
    \/ Remove(Caller)
    \/ GetOrCreate_get(Caller)
    \/ GetOrCreate_create(Caller)
    \/ CreateItem(Caller)
    \/ StorageError(Caller)

FaultSpec == Init /\ [][NextFault]_vars

\* ------------------------------------------------------ Python float (binary64)
\* significand bits of a Python float (IEEE 754 binary64)
SignificandBits == 53

\* natural numbers beyond the machine integer are sequences of digits in
\* base 2^LimbBits, least significant digit first, without leading zeros
LimbBits == 15
Limb == 2 ^ LimbBits

RECURSIVE Digits(_)
\* the digits of the natural number n
Digits(n) == IF n = 0 THEN <<>> ELSE <<n % Limb>> \o Digits(n \div Limb)

\* digit i of a, zero beyond its length
Digit(a, i) == IF i \in DOMAIN a THEN a[i] ELSE 0

RECURSIVE Norm(_)
\* a without its leading zeros
Norm(a) ==
    IF a # <<>> /\ a[Len(a)] = 0 THEN Norm(SubSeq(a, 1, Len(a) - 1)) ELSE a

RECURSIVE AddFrom(_, _, _, _)
\* the digits of a + b from digit i on, with the carry c into digit i
AddFrom(a, b, i, c) ==
    IF i > Len(a) /\ i > Len(b) THEN Digits(c)
    ELSE IF Digit(a, i) + Digit(b, i) + c >= Limb
         THEN <<Digit(a, i) + Digit(b, i) + c - Limb>> \o AddFrom(a, b, i + 1, 1)
         ELSE <<Digit(a, i) + Digit(b, i) + c>> \o AddFrom(a, b, i + 1, 0)

\* a + b
Add(a, b) == AddFrom(a, b, 1, 0)

RECURSIVE MulFrom(_, _, _, _)
\* the digits of a * k from digit i on, with the carry c into digit i
MulFrom(a, k, i, c) ==
    IF i > Len(a) THEN Digits(c)
    ELSE <<(a[i] * k + c) % Limb>> \o MulFrom(a, k, i + 1, (a[i] * k + c) \div Limb)

\* a * k for a machine integer 0 <= k <= Limb
Mul(a, k) == Norm(MulFrom(a, k, 1, 0))

\* a * 2^s
Shl(a, s) ==
    IF a = <<>> THEN <<>>
    ELSE [i \in 1..(s \div LimbBits) |-> 0] \o Mul(a, 2 ^ (s % LimbBits))

\* floor(a / 2^s)
Shr(a, s) ==
    LET d == s \div LimbBits
        r == s % LimbBits
    IN Norm([i \in 1..(Len(a) - d) |->
                (a[i + d] \div (2 ^ r)) + (Digit(a, i + d + 1) % (2 ^ r)) * (2 ^ (LimbBits - r))])

\* binary digit j of a, the least significant being digit 0
Bit(a, j) == (Digit(a, j \div LimbBits + 1) \div (2 ^ (j % LimbBits))) % 2

\* a has a nonzero binary digit below digit j
AnyBitBelow(a, j) ==
    \/ \E i \in 1..(j \div LimbBits) : Digit(a, i) # 0
    \/ Digit(a, j \div LimbBits + 1) % (2 ^ (j % LimbBits)) # 0

\* the number of binary digits of a
BitLen(a) ==
    IF a = <<>> THEN 0
    ELSE LimbBits * (Len(a) - 1)
            + (CHOOSE n \in 1..LimbBits : 2 ^ (n - 1) <= a[Len(a)] /\ a[Len(a)] < 2 ^ n)

\* a <= b
Leq(a, b) ==
    \/ Len(a) < Len(b)
    \/ /\ Len(a) = Len(b)
       /\ \/ a = b
          \/ \E i \in 1..Len(a) : a[i] < b[i] /\ \A j \in (i + 1)..Len(a) : a[j] = b[j]

\* a non-negative float is [m, exp]: the significand m, a natural number of
\* SignificandBits binary digits, and the value m * 2^exp; zero has m = 0
FZero == [m |-> <<>>, exp |-> 0]

\* round-to-nearest, ties-to-even, of a * 2^e (plus a nonzero rest below the
\* last digit of a when sticky): the result of every float operation
Round(a, e, sticky) ==
    LET n == BitLen(a)
        P == SignificandBits
    IN IF n = 0 THEN FZero
       ELSE IF n <= P THEN [m |-> Shl(a, P - n), exp |-> e - (P - n)]
       ELSE LET keep == Shr(a, n - P)
                rest == sticky \/ AnyBitBelow(a, n - P - 1)
                up == Bit(a, n - P - 1) = 1 /\ (rest \/ Bit(keep, 0) = 1)
                r == IF up THEN Add(keep, Digits(1)) ELSE keep
            IN IF BitLen(r) > P
               THEN [m |-> Shr(r, 1), exp |-> e + (n - P) + 1]
               ELSE [m |-> r, exp |-> e + (n - P)]

\* digits of r / s kept by the division below
FracLimbs == 5

RECURSIVE FracDigits(_, _, _)
\* the first n digits of r / s, for r < s, most significant first
FracDigits(r, s, n) ==
    IF n = 0 THEN <<>>
    ELSE <<(r * Limb) \div s>> \o FracDigits((r * Limb) % s, s, n - 1)

RECURSIVE FracRem(_, _, _)
\* what is left of r / s after n digits
FracRem(r, s, n) == IF n = 0 \/ r = 0 THEN r ELSE FracRem((r * Limb) % s, s, n - 1)

Reverse(q) == [i \in 1..Len(q) |-> q[Len(q) + 1 - i]]

\* float(n) for an integer n >= 0 (lines 82-83)
float(n) == Round(Digits(n), 0, FALSE)

\* float(x) / float(s) for integers x >= 0 and 1 <= s < Limb (line 84)
FDiv(x, s) ==
    Round(Norm(Reverse(FracDigits(x % s, s, FracLimbs)) \o Digits(x \div s)),
          0 - FracLimbs * LimbBits, FracRem(x % s, s, FracLimbs) # 0)

\* k * f for an integer 0 <= k <= Limb (i * new_delta, line 86)
FMulInt(k, f) == Round(Mul(f.m, k), f.exp, FALSE)

\* float(k) + f for an integer k >= 0 (min_weight + ..., ... + 2, line 86)
FAddInt(k, f) ==
    IF f.m = <<>> THEN float(k)
    ELSE IF f.exp <= 0
         THEN Round(Add(f.m, Shl(Digits(k), 0 - f.exp)), f.exp, FALSE)
         ELSE Round(Add(Shl(f.m, f.exp), Digits(k)), 0, FALSE)

\* k <= f + u units in the last place of f, for integers k, u >= 0
IntLeqFloat(k, f, u) ==
    IF f.m = <<>> THEN k = 0
    ELSE IF f.exp <= 0
         THEN Leq(Shl(Digits(k), 0 - f.exp), Add(f.m, Digits(u)))
         ELSE Leq(Digits(k), Shl(Add(f.m, Digits(u)), f.exp))

\* math.log is monotone; arguments at most this many units in the last place
\* apart can have the same 100 * math.log(...), depending on the build's libm
LogSlack == 8

\* -------------------------------------------------------- cloud_for_model
\* the ways cloud_for_model ends without returning
CloudErrors == {"ValueError", "ZeroDivisionError"}

max(S) == CHOOSE x \in S : \A y \in S : y <= x
min(S) == CHOOSE x \in S : \A y \in S : x <= y

\* lines 79-84: the usage query, temp, max_weight and min_weight, the division;
\* max() of an empty list raises ValueError, dividing by float(0) raises
\* ZeroDivisionError
cloud_for_model(st, counts) ==
    /\ cloud_pc \in {"idle", "done"} \cup CloudErrors
    /\ steps' = st
    /\ tags' = [k \in DOMAIN counts |-> [count |-> counts[k]]]
    /\ new_thresholds' = <<>>
    /\ same_log' = {}
    /\ visited' = 0
    /\ cloud_pc' = IF counts = <<>> THEN "ValueError"
                   ELSE IF st = 0 THEN "ZeroDivisionError"
                   ELSE "thresholds"
    /\ UNCHANGED tagging

\* the argument of math.log at line 86: (min_weight + i * new_delta) + 2
LogArg(min_weight, new_delta, i) == FAddInt(2, FAddInt(min_weight, FMulInt(i, new_delta)))

\* the (count, i) whose count + 2 exceeds the argument of threshold i by no
\* more than LogSlack units in the last place
NearPairs(thresholds, counts) ==
    {x \in counts \X (0..(Len(thresholds) - 1)) :
        /\ ~IntLeqFloat(x[1] + 2, thresholds[x[2] + 1][1], 0)
        /\ IntLeqFloat(x[1] + 2, thresholds[x[2] + 1][1], LogSlack)}

\* math.log is monotone and the arguments grow with i: when the excess over
\* threshold i is evened out, so is the smaller excess over a later one
Monotone(S, near) ==
    \A x \in S : \A y \in near : (y[1] = x[1] /\ y[2] > x[2]) => y \in S

\* lines 81-86: new_thresholds, one (100 * math.log(argument), i) for each i
\* in range(steps + 1), kept as (argument, i)
Thresholds ==
    /\ cloud_pc = "thresholds"
    /\ LET temp == {tags[k].count : k \in DOMAIN tags}
           max_weight == max(temp)
           min_weight == min(temp)
           new_delta == FDiv(max_weight - min_weight, steps)
       IN /\ new_thresholds' =
                [n \in 1..(steps + 1) |-> <<LogArg(min_weight, new_delta, n - 1), n - 1>>]
          /\ \E S \in SUBSET NearPairs(new_thresholds', temp) :
                /\ Monotone(S, NearPairs(new_thresholds', temp))
                /\ same_log' = S
    /\ cloud_pc' = "font_size"
    /\ UNCHANGED <<tagging, steps, tags, visited>>

\* line 90: 100 * math.log(count + 2) <= threshold[0]
LogLeq(count, threshold) ==
    \/ IntLeqFloat(count + 2, threshold[1], 0)
    \/ <<count, threshold[2]>> \in same_log

RECURSIVE SetFontSize_Reversed(_, _, _)
SetFontSize_Reversed(t, n, font_set) ==
    IF n > Len(new_thresholds) THEN t
    ELSE IF LogLeq(t.count, new_thresholds[n]) /\ ~font_set
         THEN SetFontSize_Reversed([count |-> t.count,
                                    font_size |-> steps + 1 - new_thresholds[n][2]], n + 1, TRUE)
         ELSE SetFontSize_Reversed(t, n + 1, font_set)

RECURSIVE SetFontSize_LastWins(_, _, _)
SetFontSize_LastWins(t, n, font_set) ==
    IF n > Len(new_thresholds) THEN t
    ELSE IF LogLeq(t.count, new_thresholds[n])
         THEN SetFontSize_LastWins([count |-> t.count, font_size |-> new_thresholds[n][2]], n + 1, TRUE)
         ELSE SetFontSize_LastWins(t, n + 1, font_set)

RECURSIVE SetFontSize(_, _, _)
\* lines 88-92: the scan of new_thresholds[1:int(steps)+1] from its element n on
SetFontSize(t, n, font_set) ==
    IF n > Len(new_thresholds) THEN t
    ELSE IF LogLeq(t.count, new_thresholds[n]) /\ ~font_set
         THEN SetFontSize([count |-> t.count, font_size |-> new_thresholds[n][2]], n + 1, TRUE)
         ELSE SetFontSize(t, n + 1, font_set)

\* lines 87-93: one turn of the loop over tags; after the last one the call
\* returns tags
FontSize ==
    /\ cloud_pc = "font_size"
    /\ tags' = [tags EXCEPT ![visited + 1] = SetFontSize(@, 2, FALSE)]
    /\ visited' = visited + 1
    /\ cloud_pc' = IF visited + 1 = Len(tags) THEN "done" ELSE "font_size"
    /\ UNCHANGED <<tagging, steps, new_thresholds, same_log>>

NextCloud ==
    \/ \E st \in StepsValues, counts \in Usages : cloud_for_model(st, counts)
    \/ Thresholds
    \/ FontSize

\* cloud_for_model over the usage rows a call can meet
CloudSpec == Init /\ [][NextCloud]_vars

TypeOK ==
    /\ \A t \in tag : t.id \in 1..(next_tag_id - 1)
    /\ \A it \in tagged_item : it.id \in 1..(next_item_id - 1)
    /\ \A p \in Procs :
        pc[p] \in {"idle", "remove", "add", "create_tag", "create_item", "done"} \cup Errors
    /\ cloud_pc \in {"idle", "thresholds", "font_size", "done"} \cup CloudErrors
    /\ visited \in 0..Len(tags)
    /\ Len(new_thresholds) \in {0, steps + 1}

\* ------------------------------------------------- vocabulary of the claims
RECURSIVE Concat(_)
Concat(q) == IF q = <<>> THEN "" ELSE q[1] \o Concat(Tail(q))

\* positions i..j of s hold a maximal run of characters that are not whitespace
IsWordAt(s, i, j) ==
    /\ i <= j
    /\ \A k \in i..j : s[k] \notin Whitespace
    /\ i = 1 \/ s[i - 1] \in Whitespace
    /\ j = Len(s) \/ s[j + 1] \in Whitespace

\* the whitespace-separated names of a tag_list
WordsIn(tl) ==
    IF tl = None THEN {}
    ELSE {Concat(SubSeq(tl, x[1], x[2])) :
            x \in {y \in (1..Len(tl)) \X (1..Len(tl)) : IsWordAt(tl, y[1], y[2])}}

\* tag_list is absent, empty or whitespace only
IsBlank(tl) == tl = None \/ \A i \in DOMAIN tl : tl[i] \in Whitespace

\* the name of the Tag row a tagged_item row references
TagNameOf(id) == (CHOOSE t \in tag : t.id = id).name

\* the caller's call has returned and ran alone
DoneAlone(p) == pc[p] = "done" /\ alone[p]

\* the rows of the call's record at entry and now
RowsBefore(p) == ItemsOf(pre[p].tagged_item, obj[p])
RowsNow(p) == ItemsOf(tagged_item, obj[p])

\* ---------------------------------------------------------------- claims

\* C1: when update_tags(obj, tag_list) has run alone to completion, the names
\* of get_for_object(obj) are exactly the whitespace-separated names of
\* tag_list
C1_RoundTrip ==
    \A p \in Procs :
        DoneAlone(p) => NamesOf(get_for_object(obj[p])) = WordsIn(tag_list[p])

\* a call that ran alone removed a tag of the record, kept one and added one
C1_Witness ==
    \E p \in Procs :
        /\ DoneAlone(p)
        /\ NamesOf(current_tags[p]) = {"a", "b"}
        /\ WordsIn(tag_list[p]) = {"b", "c"}
        /\ NamesOf(get_for_object(obj[p])) = {"b", "c"}

\* C2: the tagged_item table never holds two rows with the same (tag,
\* content_type, object_id), and a create of a triple that is present ends
\* the call with an error and adds no row
NoDuplicateTriple ==
    \A r1, r2 \in tagged_item :
        (r1.tag = r2.tag /\ r1.content_type = r2.content_type
            /\ r1.object_id = r2.object_id) => r1 = r2

RacingCreateFails ==
    \A p \in Procs :
        (pc[p] = "create_item" /\ pc'[p] # "create_item"
            /\ TripleTaken(tag_row[p].id, ctype(obj[p]), oid(obj[p])))
        => (pc'[p] = "IntegrityError_item" /\ tagged_item' = tagged_item)

C2_UniqueTriple == [](NoDuplicateTriple) /\ [][RacingCreateFails]_vars

\* a racing create of a triple that another call has inserted has failed
C2_Witness ==
    \E p \in Procs :
        /\ pc[p] = "IntegrityError_item"
        /\ \E n \in updated_tag_names[p] \ NamesOf(current_tags[p]) :
            Cardinality({r \in RowsNow(p) : TagNameOf(r.tag) = n}) = 1

\* C3: a call that ran alone deleted exactly the record's rows of the tags in
\* C \ D, left the rows of the tags in C /\ D in place (same row), and created
\* exactly one row for each name in D \ C
C3_MinimalDiff ==
    \A p \in Procs :
        DoneAlone(p) =>
            LET C == NamesOf(current_tags[p])
                D == updated_tag_names[p]
                before == RowsBefore(p)
                now == RowsNow(p)
            IN /\ before \ now = {r \in before : TagNameOf(r.tag) \in C \ D}
               /\ {r \in before : TagNameOf(r.tag) \in C \cap D} \subseteq now
               /\ \A r \in now \ before : TagNameOf(r.tag) \in D \ C
               /\ \A n \in D \ C :
                    Cardinality({r \in now \ before : TagNameOf(r.tag) = n}) = 1

\* current {a, b}, desired "b c": the row of a is gone, the row of b is the
\* row it was, one row of c is new
C3_Witness ==
    \E p \in Procs :
        /\ DoneAlone(p)
        /\ NamesOf(current_tags[p]) = {"a", "b"}
        /\ updated_tag_names[p] = {"b", "c"}
        /\ Cardinality(RowsBefore(p) \ RowsNow(p)) = 1
        /\ Cardinality(RowsNow(p) \ RowsBefore(p)) = 1
        /\ Cardinality(RowsNow(p) \cap RowsBefore(p)) = 1

\* C4: a call that repeats the call completed just before it (same record,
\* same tag_list, nothing written in between) issues no delete and no create:
\* it returns at once and the tables are what they were
C4_Idempotent ==
    \A p \in Procs :
        (again[p] /\ alone[p]) =>
            /\ pc[p] = "done"
            /\ tag = pre[p].tag
            /\ tagged_item = pre[p].tagged_item
            /\ NoDuplicateTriple

\* the repeated call had names to keep
C4_Witness ==
    \E p \in Procs :
        /\ again[p] /\ alone[p] /\ pc[p] = "done"
        /\ WordsIn(tag_list[p]) = {"a", "b"}
        /\ NamesOf(get_for_object(obj[p])) = {"a", "b"}

\* C5 as claimed: while a call runs and nobody else writes, a reader of the
\* record sees the tag set from before the call or the desired one, never a
\* set in between
C5_NoIntermediateTagSet ==
    \A p \in Procs :
        (Running(p) /\ alone[p]) =>
            NamesOf(get_for_object(obj[p])) \in
                {NamesOf(current_tags[p]), updated_tag_names[p]}

\* C6 as claimed: a call that ended with a storage error has left the tables
\* as they were at its entry
C6_FailureLeavesStoreUnchanged ==
    \A p \in Procs :
        (pc[p] = "StorageError" /\ alone[p]) =>
            (tag = pre[p].tag /\ tagged_item = pre[p].tagged_item)

\* C7 as claimed: when two calls on the same record have both returned, the
\* record's tag set is the desired set of one of them
C7_Serialized ==
    \A p, q \in Procs :
        (p # q /\ pc[p] = "done" /\ pc[q] = "done" /\ obj[p] = obj[q]) =>
            NamesOf(get_for_object(obj[p])) \in
                {updated_tag_names[p], updated_tag_names[q]}

\* C8: a call that ran alone so far has read the tags of its own (type, id)
\* pair only and has changed no row of another pair: the rows of every other
\* record are the rows from before the call
C8_TypeIsolation ==
    \A p \in Procs :
        ((Running(p) \/ pc[p] = "done") /\ alone[p]) =>
            /\ current_tags[p] =
                {t \in pre[p].tag : \E it \in RowsBefore(p) : it.tag = t.id}
            /\ \A o \in Objects \ {obj[p]} :
                ItemsOf(tagged_item, o) = ItemsOf(pre[p].tagged_item, o)

\* the call took the tag a from its record while the record of the other
\* type with the same id carries a too, and keeps it
C8_Witness ==
    \E p \in Procs :
        /\ DoneAlone(p)
        /\ obj[p] = <<"T2", 1>>
        /\ "a" \in NamesOf(current_tags[p])
        /\ NamesOf(get_for_object(<<"T2", 1>>)) = {"b", "c"}
        /\ "a" \in NamesOf(get_for_object(<<"T1", 1>>))

\* C9: after a call with an absent, empty or whitespace-only tag_list that ran
\* alone the record has no tags, and no Tag row and no tagged_item row was
\* created; after a call with names the record has one row per distinct name
C9_EmptyClears ==
    \A p \in Procs :
        DoneAlone(p) =>
            /\ IsBlank(tag_list[p]) =>
                /\ get_for_object(obj[p]) = {}
                /\ tag = pre[p].tag
                /\ tagged_item \subseteq pre[p].tagged_item
            /\ ~IsBlank(tag_list[p]) =>
                /\ Cardinality(RowsNow(p)) = Cardinality(WordsIn(tag_list[p]))
                /\ \A n \in NamesOf(tag) : n # ""

\* a whitespace-only tag_list has cleared a record that had tags
C9_Witness ==
    \E p \in Procs :
        /\ DoneAlone(p)
        /\ tag_list[p] = <<" ">>
        /\ RowsBefore(p) # {}
        /\ RowsNow(p) = {}

\* C10 as claimed: when cloud_for_model has returned for a non-empty usage and
\* steps >= 1, every tag carries a font_size, an integer between 1 and steps
C10_FontSizeInRange ==
    (cloud_pc = "done" /\ tags # <<>> /\ steps >= 1) =>
        \A k \in DOMAIN tags :
            /\ "font_size" \in DOMAIN tags[k]
            /\ tags[k].font_size \in 1..steps

\* C11 as claimed: when usage_for_model gives no tag, cloud_for_model returns
\* the empty list and raises no error
C11_EmptyUsageReturns ==
    (cloud_pc # "idle" /\ tags = <<>> /\ steps >= 1) => cloud_pc = "done"

\* C12 as claimed: usage_for_model(Model) returns each tag that some record of
\* the type carries exactly once, and no tag without an association with the
\* type
C12_UsageDistinct ==
    \A ct \in Types :
        /\ \A t \in tag :
            (\E o \in Objects : ctype(o) = ct /\ t \in get_for_object(o)) =>
                Cardinality({r \in usage_for_model(ct) : r.id = t.id}) = 1
        /\ \A r \in usage_for_model(ct) :
            \E it \in tagged_item : it.tag = r.id /\ it.content_type = ct

\* C13: the count on every row of usage_for_model(Model, counts=True) is the
\* number of distinct records of the type that carry the tag; associations of
\* the tag with records of other types are not counted
C13_UsageCounts ==
    \A ct \in Types : \A r \in usage_for_model(ct) :
        r.count = Cardinality({o \in Objects :
                        ctype(o) = ct /\ r.id \in {t.id : t \in get_for_object(o)}})

\* the tag a is on two records of T1 and on a record of T2: its count for T1
\* is 2, for T2 it is 1
C13_Witness ==
    /\ \E r \in usage_for_model("T1") : r.name = "a" /\ r.count = 2
    /\ \E r \in usage_for_model("T2") : r.name = "a" /\ r.count = 1

\* the tag at position k of the returned list carries a font_size
HasFontSize(k) == "font_size" \in DOMAIN tags[k]

\* C14: of two tags one cloud_for_model call returned with a font_size, the
\* one with the larger count has a font_size at least as large; tags with
\* equal counts are returned alike
C14_CloudMonotone ==
    cloud_pc = "done" =>
        \A j, k \in DOMAIN tags :
            /\ (HasFontSize(j) /\ HasFontSize(k) /\ tags[j].count > tags[k].count) =>
                    tags[j].font_size >= tags[k].font_size
            /\ tags[j].count = tags[k].count => tags[j] = tags[k]

\* counts 1, 10, 100 with steps = 4: font sizes 1, 1, 4
C14_Witness ==
    /\ cloud_pc = "done"
    /\ steps = 4
    /\ tags = <<[count |-> 1, font_size |-> 1], [count |-> 10, font_size |-> 1],
                [count |-> 100, font_size |-> 4]>>

\* C15: in every reachable state, under every interleaving of concurrent
\* calls, no two Tag rows share a name and the tagged_item rows of one name
\* reference one Tag row; a lookup that finds the name takes the existing row
\* and creates none
UniqueTagName ==
    /\ \A t1, t2 \in tag : t1.name = t2.name => t1 = t2
    /\ \A r1, r2 \in tagged_item :
        TagNameOf(r1.tag) = TagNameOf(r2.tag) => r1.tag = r2.tag

LookupReuses ==
    \A p \in Procs :
        (pc[p] = "add" /\ pc'[p] = "create_item") =>
            (tag' = tag /\ tag_row'[p] \in tag /\ tag_row'[p].name = tag_name'[p])

C15_UniqueTagName == [](UniqueTagName) /\ [][LookupReuses]_vars

\* two concurrent calls on different records added the same new name: one
\* created the Tag row and tagged its record, the insert of the other failed
C15_Witness ==
    \E p, q \in Procs :
        /\ pc[p] = "IntegrityError_tag"
        /\ pc[q] = "done"
        /\ obj[p] # obj[q]
        /\ Cardinality(tag) = 1
        /\ get_for_object(obj[q]) = tag
        /\ NamesOf(tag) \subseteq updated_tag_names[p]

\* C16: no step of any update_tags call takes a row out of the tag table, and
\* every tagged_item row references a Tag row that exists; a tag whose last
\* association was removed stays, orphaned
TagsOnlyGrow == tag \subseteq tag'

ItemsReferenceTags == \A it \in tagged_item : \E t \in tag : t.id = it.tag

C16_TagsNeverDeleted == [][TagsOnlyGrow]_vars /\ [](ItemsReferenceTags)

\* a call has removed the last association of a tag, and the Tag row is there
C16_Witness ==
    \E p \in Procs :
        /\ DoneAlone(p)
        /\ \E t \in current_tags[p] :
            /\ t \in tag
            /\ t.name \notin updated_tag_names[p]
            /\ \A it \in tagged_item : it.tag # t.id

\* the counts of the returned tags
CountsOf == {tags[k].count : k \in DOMAIN tags}

\* the i in 1..steps whose threshold the score of count does not exceed
Matches(count) == {i \in 1..steps : LogLeq(count, new_thresholds[i + 1])}

\* threshold i belongs to the count value min + i*(max-min)/steps: the
\* argument of its math.log is that value + 2 up to rounding, so it lies, but
\* for a few units in the last place, between the integers around it
ThresholdAt(i) ==
    LET lo == min(CountsOf)
        hi == max(CountsOf)
        below == lo + (i * (hi - lo)) \div steps + 2
        above == lo + (i * (hi - lo) + steps - 1) \div steps + 2
    IN /\ new_thresholds[i + 1][2] = i
       /\ IntLeqFloat(below, new_thresholds[i + 1][1], LogSlack)
       /\ ~IntLeqFloat(above + 1, new_thresholds[i + 1][1], 0)

\* C17: cloud_for_model gives each tag the smallest i in 1..steps whose
\* threshold, the one of the count value min + i*(max-min)/steps, its score
\* does not exceed (the first match stays); a tag with the minimum count gets
\* 1, so when all counts are equal every tag gets 1
C17_FirstThreshold ==
    (cloud_pc = "done" /\ tags # <<>>) =>
        /\ \A i \in 0..steps : ThresholdAt(i)
        /\ \A k \in DOMAIN tags :
            /\ (Matches(tags[k].count) # {}) =>
                    (HasFontSize(k) /\ tags[k].font_size = min(Matches(tags[k].count)))
            /\ (Matches(tags[k].count) = {}) => ~HasFontSize(k)
            /\ (tags[k].count = min(CountsOf)) => (HasFontSize(k) /\ tags[k].font_size = 1)

\* a tag below two thresholds has the index of the first, which is not 1,
\* next to a tag with the minimum count, which has 1
C17_Witness ==
    /\ cloud_pc = "done"
    /\ \E k \in DOMAIN tags :
        /\ Cardinality(Matches(tags[k].count)) >= 2
        /\ HasFontSize(k)
        /\ tags[k].font_size > 1
        /\ tags[k].font_size < steps
    /\ \E k \in DOMAIN tags : tags[k].count = min(CountsOf) /\ tags[k].count < max(CountsOf)

\* C18: in every reachable state a record r of type T is returned by
\* get_by_model(T, t) exactly when t is returned by get_for_object(r), and
\* get_by_model(T, t) returns records of T only, none for the association of
\* a record of another type with the same id
C18_ViewsAgree ==
    \A t \in tag :
        /\ \A o \in Objects :
            (\E r \in get_by_model(ctype(o), t) : r.object = o) <=> (t \in get_for_object(o))
        /\ \A ct \in Types : \A r \in get_by_model(ct, t) :
            ctype(r.object) = ct /\ t \in get_for_object(r.object)

\* two records of different types with the same id: each is returned for its
\* own tag, and no record of the first type is returned for the tag of the
\* other
C18_Witness ==
    \E t, u \in tag :
        /\ {r.object : r \in get_by_model("T1", t)} = {<<"T1", 1>>}
        /\ t \notin get_for_object(<<"T2", 1>>)
        /\ {r.object : r \in get_by_model("T2", u)} = {<<"T2", 1>>}
        /\ get_by_model("T1", u) = {}

====
